---- MODULE Spec2Model ----
(***************************************************************************)
(* Model of ioFabricClient.js: the two WebSocket channels (control and     *)
(* message) of the ioFabric container SDK, their inbound frame handlers,   *)
(* the ACK sender, the keepalive (ping) handler and wsSendMessage.         *)
(*                                                                         *)
(* JavaScript runs every handler to completion, so each handler is one     *)
(* action.  The variable `last` holds what the handler that has just run   *)
(* did, in order: the application callbacks it invoked, the frames it      *)
(* wrote to sockets and the error it threw.  Application callbacks are     *)
(* taken to return normally.  EventLoopTurn gives control back to the      *)
(* event loop, after which the next event is delivered.                    *)
(*                                                                         *)
(* Bytes are integers 0..255, buffers are sequences of bytes, strings are  *)
(* sequences of code points.  An unsigned integer read from the wire is    *)
(* kept as its base-256 digits without leading zeros (UInt), because       *)
(* receipt timestamps are wider than 32-bit integers.                      *)
(***************************************************************************)
EXTENDS Integers, Sequences, FiniteSets, TLC

(* ---- opcodes, ioFabricClient.js:9-14 ---- *)
OPCODE_PING == 9
OPCODE_PONG == 10
OPCODE_ACK == 11
OPCODE_CONTROL_SIGNAL == 12
OPCODE_MSG == 13
OPCODE_RECEIPT == 14

(* ---- bounds ---- *)
MaxSockets == 2
MaxEntityLen == 2
MaxIdLen == 2
MaxTsLen == 7

(* the value of a variable that was declared and never assigned *)
Undefined == 0

(* the Node.js builds the SDK runs on: Buffer.readUIntBE of more than six  *)
(* bytes computes in doubles on "legacy" builds (before Node 10) and       *)
(* throws a RangeError on "strict" builds (Node 10 and later)              *)
Runtimes == {"legacy", "strict"}

VARIABLES
    runtime,    \* the build of Node.js the process runs on
    wsControl,  \* module variable wsControl (line 28): a socket id or Undefined
    wsMessage,  \* module variable wsMessage (line 27): a socket id or Undefined
    sockets,    \* the WebSocket objects constructed so far, in order of construction
    last,       \* the handler or API call that has just run, and its effects
    ELEMENT_ID, \* module variable ELEMENT_ID (line 22)
    SSL,        \* module variable SSL (line 23)
    host,       \* module variable host (line 24)
    port,       \* module variable port (line 25)
    boot,       \* the call of exports.init and its host probe
    http        \* the HTTP request made through makeHttpRequest

settings == <<ELEMENT_ID, SSL, host, port>>
vars == <<runtime, wsControl, wsMessage, sockets, last, settings, boot, http>>

(* ---- sequences of bytes ---- *)
RECURSIVE BSeq(_, _)
BSeq(B, n) == IF n = 0 THEN {<<>>}
              ELSE BSeq(B, n - 1) \cup {Append(s, b) : s \in {t \in BSeq(B, n - 1) : Len(t) = n - 1}, b \in B}

RECURSIVE Zeros(_)
Zeros(n) == IF n <= 0 THEN <<>> ELSE <<0>> \o Zeros(n - 1)

Min(a, b) == IF a < b THEN a ELSE b

(* Buffer.prototype.slice(start, end): both ends clamped to the buffer *)
Slice(data, start, end) ==
    LET s == Min(start, Len(data))
        e == Min(end, Len(data))
    IN  IF e <= s THEN <<>> ELSE SubSeq(data, s + 1, e)

(* data[i] of a Buffer: the byte, or undefined (here -1) outside the buffer *)
ByteAt(data, i) == IF i < Len(data) THEN data[i + 1] ELSE -1

(* ---- unsigned integers read from the wire ---- *)

(* the value of big-endian bytes as base-256 digits without leading zeros *)
RECURSIVE UInt(_)
UInt(bytes) == IF bytes = <<>> THEN <<>>
               ELSE IF bytes[1] = 0 THEN UInt(Tail(bytes))
               ELSE bytes

(* a UInt as an integer (used for lengths, which are small) *)
RECURSIVE NatOf(_)
NatOf(u) == IF u = <<>> THEN 0 ELSE NatOf(SubSeq(u, 1, Len(u) - 1)) * 256 + u[Len(u)]

RECURSIVE BitLen(_)
BitLen(b) == IF b = 0 THEN 0 ELSE 1 + BitLen(b \div 2)

RECURSIVE TrailingZeroBits(_)
TrailingZeroBits(u) ==
    IF u = <<>> THEN 0
    ELSE IF u[Len(u)] = 0 THEN 8 + TrailingZeroBits(SubSeq(u, 1, Len(u) - 1))
    ELSE IF u[Len(u)] % 2 = 0
         THEN 1 + TrailingZeroBits(SubSeq(u, 1, Len(u) - 1) \o <<u[Len(u)] \div 2>>)
         ELSE 0

(* a double holds the integer exactly iff its set bits span at most 53 bits *)
FitsDouble(u) ==
    u = <<>> \/ (8 * (Len(u) - 1) + BitLen(u[1])) - TrailingZeroBits(u) <= 53

(* Buffer.prototype.readUIntBE(offset, byteLength).  Both builds throw a   *)
(* RangeError when the bytes are not all inside the buffer.  With more     *)
(* than six bytes the strict build throws a RangeError, and the legacy     *)
(* build sums byte * 256^k in doubles: the result is the value when the    *)
(* value fits a double, and a rounded neighbour of it (exact = FALSE)      *)
(* otherwise.                                                              *)
readUIntBE(data, offset, byteLength, rt) ==
    IF offset + byteLength > Len(data)
    THEN [ok |-> FALSE, exact |-> FALSE, be |-> <<>>]
    ELSE IF byteLength > 6 /\ rt = "strict"
    THEN [ok |-> FALSE, exact |-> FALSE, be |-> <<>>]
    ELSE LET u == UInt(SubSeq(data, offset + 1, offset + byteLength))
         IN  [ok |-> TRUE, exact |-> FitsDouble(u), be |-> u]

(* Buffer.prototype.toString('utf-8') on the bytes of the model: an ASCII  *)
(* byte is its own code point, a byte that can start no UTF-8 sequence     *)
(* (0xFF) decodes to U+FFFD                                                *)
Utf8ToString(bytes) == [i \in 1..Len(bytes) |-> IF bytes[i] < 128 THEN bytes[i] ELSE 65533]

(* ---- the collaborators in lib/ ---- *)

(* byteUtils.intToBytes: a length as four big-endian bytes *)
intToBytes(n) == <<(n \div 16777216) % 256, (n \div 65536) % 256, (n \div 256) % 256, n % 256>>

(* ioMessageUtil.ioMsgBuffer / ioMessageFromBuffer: the entity codec; an   *)
(* entity is known to the model by its encoded bytes                       *)
ioMsgBuffer(ioMsg) == ioMsg.encoded
ioMessageFromBuffer(bytes) == [encoded |-> bytes]

(* ---- what a handler does, in order ---- *)
CbEff(s, name, args) == [eff |-> "cb", sock |-> s, name |-> name, args |-> args, data |-> <<>>]
SendEff(s, data) == [eff |-> "send", sock |-> s, name |-> "", args |-> <<>>, data |-> data]
PongEff(s, data) == [eff |-> "pong", sock |-> s, name |-> "", args |-> <<>>, data |-> data]
ThrowEff(name) == [eff |-> "throw", sock |-> 0, name |-> name, args |-> <<>>, data |-> <<>>]

(* a timestamp handed to onMessageReceipt: a JavaScript number *)
Number(r) == [exact |-> r.exact, be |-> r.be]
Zero == [exact |-> TRUE, be |-> <<>>]

(* WebSocket.prototype.send on socket s: ws throws when s is not open *)
WsSend(socks, s, data) ==
    IF socks[s].readyState = "OPEN" THEN <<SendEff(s, data)>> ELSE <<ThrowEff("NotOpened")>>

(* sendAck(ws), lines 235-239: ws is the value of the argument *)
sendAck(socks, ws) ==
    IF ws # Undefined THEN WsSend(socks, ws, <<OPCODE_ACK>>) ELSE <<>>

(* effects e1 followed by e2, unless e1 ended in a throw *)
Then(e1, e2) ==
    IF e1 # <<>> /\ e1[Len(e1)].eff = "throw" THEN e1 ELSE e1 \o e2

(* ---- the frame handlers ---- *)

(* wsHandleControlData without the test of the opcode at line 166 *)
wsHandleControlData_anyOpcode(socks, wsC, s, data, binary) ==
    IF binary /\ Len(data) > 0
    THEN Then(<<CbEff(s, "onNewConfigSignal", <<>>)>>, sendAck(socks, wsC))
    ELSE <<>>

(* wsHandleControlData, lines 163-171, of the control socket s whose       *)
(* callbacks are cb; wsC is the value of the module variable wsControl     *)
wsHandleControlData(socks, wsC, s, data, binary) ==
    IF binary /\ Len(data) > 0
    THEN IF data[1] = OPCODE_CONTROL_SIGNAL
         THEN Then(<<CbEff(s, "onNewConfigSignal", <<>>)>>, sendAck(socks, wsC))
         ELSE <<>>
    ELSE <<>>

(* line 191 with the slice running to the end of the frame *)
MsgEntityBytes_toEnd(data, len) == Slice(data, 5, Len(data))

(* line 191 with the end of the slice taken as the length, not length + pos *)
MsgEntityBytes_endIsLength(data, len) == Slice(data, 5, NatOf(len.be))

(* the bytes handed to ioMessageFromBuffer, lines 188-191; len is the      *)
(* result of readUIntBE(1, 4)                                              *)
MsgEntityBytes(data, len) == Slice(data, 5, NatOf(len.be) + 5)

(* the MESSAGE branch, lines 187-195; sendAck() is called without argument *)
HandleMsg(socks, s, data, rt) ==
    LET len == readUIntBE(data, 1, 4, rt)
    IN  IF ~len.ok THEN <<ThrowEff("RangeError")>>
        ELSE Then(<<CbEff(s, "onMessages", << <<ioMessageFromBuffer(MsgEntityBytes(data, len))>> >>)>>,
                  sendAck(socks, Undefined))

(* the RECEIPT branch, lines 196-211 *)
HandleReceipt(socks, wsM, s, data, rt) ==
    LET size1 == ByteAt(data, 1)
        messageId == IF size1 > 0 THEN Utf8ToString(Slice(data, 3, 3 + size1)) ELSE <<>>
        pos == IF size1 > 0 THEN 3 + size1 ELSE 3
        size2 == ByteAt(data, 2)
        ts == IF size2 > 0 THEN readUIntBE(data, pos, size2, rt)
                           ELSE [ok |-> TRUE, exact |-> TRUE, be |-> <<>>]
    IN  IF ~ts.ok THEN <<ThrowEff("RangeError")>>
        ELSE Then(<<CbEff(s, "onMessageReceipt", <<messageId, Number(ts)>>)>>,
                  sendAck(socks, wsM))

(* wsHandleMessageData with a plain else at line 196: every opcode that is *)
(* not MESSAGE is read as a RECEIPT                                        *)
wsHandleMessageData_elseReceipt(socks, wsM, s, data, binary, rt) ==
    IF binary /\ Len(data) > 0
    THEN IF data[1] = OPCODE_MSG THEN HandleMsg(socks, s, data, rt)
         ELSE HandleReceipt(socks, wsM, s, data, rt)
    ELSE <<>>

(* wsHandleMessageData, lines 184-213, of the message socket s; wsM is the *)
(* value of the module variable wsMessage                                  *)
wsHandleMessageData(socks, wsM, s, data, binary, rt) ==
    IF binary /\ Len(data) > 0
    THEN IF data[1] = OPCODE_MSG THEN HandleMsg(socks, s, data, rt)
         ELSE IF data[1] = OPCODE_RECEIPT THEN HandleReceipt(socks, wsM, s, data, rt)
         ELSE <<>>
    ELSE <<>>

(* wsPing writing its pong to the first socket that was created *)
wsPing_firstSocket(s, data, binary) ==
    IF binary /\ Len(data) = 1 THEN <<PongEff(1, <<OPCODE_PONG>>)>> ELSE <<>>

(* wsPing without the test of the payload length at line 324 *)
wsPing_anyLength(s, data, binary) ==
    IF binary THEN <<PongEff(s, <<OPCODE_PONG>>)>> ELSE <<>>

(* wsPing sending the ping's payload back instead of OPCODE_PONG *)
wsPing_echo(s, data, binary) ==
    IF binary /\ Len(data) = 1 THEN <<PongEff(s, data)>> ELSE <<>>

(* wsPing, lines 323-329, registered on socket s by wsOnOpen *)
wsPing(s, data, binary) ==
    IF binary /\ Len(data) = 1 THEN <<PongEff(s, <<OPCODE_PONG>>)>> ELSE <<>>

(* the frame wsSendMessage builds, lines 225-228 *)
MessageFrame(msgBuffer) == <<OPCODE_MSG>> \o intToBytes(Len(msgBuffer)) \o msgBuffer

(* wsSendMessage with line 224 testing the readyState only: reading it off *)
(* an undefined wsMessage is a TypeError                                   *)
wsSendMessage_noUndefinedTest(socks, wsM, ioMsg) ==
    IF wsM = Undefined THEN <<ThrowEff("TypeError")>>
    ELSE IF socks[wsM].readyState # "OPEN" THEN <<ThrowEff("NotConnected")>>
    ELSE WsSend(socks, wsM, MessageFrame(ioMsgBuffer(ioMsg)))

(* wsSendMessage, lines 223-230 *)
wsSendMessage(socks, wsM, ioMsg) ==
    IF wsM = Undefined \/ socks[wsM].readyState # "OPEN"
    THEN <<ThrowEff("NotConnected")>>
    ELSE WsSend(socks, wsM, MessageFrame(ioMsgBuffer(ioMsg)))

(* wsOnOpen without the call of sendMsgCb at line 322 *)
wsOnOpen_noCallback(s, role) == <<>>

(* wsOnOpen, line 322: sendMsgCb is called when one was given, which only  *)
(* wsMessageConnection does                                                *)
wsOnOpen(s, role) ==
    IF role = "message" THEN <<CbEff(s, "sendMsgCb", <<>>)>> ELSE <<>>

(* handleWsError reporting the error twice *)
handleWsError_twice(s, error) ==
    <<CbEff(s, "onError", <<error>>), CbEff(s, "onError", <<error>>)>>

(* handleWsError, lines 318-320 *)
handleWsError(s, error) == <<CbEff(s, "onError", <<error>>)>>

(* makeWSRequest(ws, ...), line 314: `ws = new WebSocket(...)` assigns the *)
(* function's parameter.  JavaScript passes the value of the caller's      *)
(* variable, so the variable named in the call keeps the value it had.     *)
CallerVarAfter(callerVar, newSocket) == callerVar

(* ---- the inputs of the model ---- *)
EntityBytes == {97, 98}
IdBytes == {97, 98}
TsBytes == {0, 1, 255}
OpBytes == {OPCODE_PING, OPCODE_PONG, OPCODE_ACK, OPCODE_CONTROL_SIGNAL, OPCODE_MSG, OPCODE_RECEIPT, 255}

Entities == BSeq(EntityBytes, MaxEntityLen)
Ids == BSeq(IdBytes, MaxIdLen)
(* timestamps of every width up to MaxTsLen: a first byte, zeros, a last byte *)
TsSeqs == {<<>>} \cup {<<x>> : x \in TsBytes}
          \cup {<<hi>> \o Zeros(n - 2) \o <<lo>> : n \in 2..MaxTsLen, hi \in TsBytes, lo \in TsBytes}

DropLast(f) == SubSeq(f, 1, Len(f) - 1)
ReceiptFrame(id, ts) == <<OPCODE_RECEIPT, Len(id), Len(ts)>> \o id \o ts

(* frames of one or two bytes, and MESSAGE frames cut inside the header *)
ShortFrames == {<<>>} \cup {<<op>> : op \in OpBytes} \cup {<<op, x>> : op \in OpBytes, x \in {0, 1, 255}}
               \cup {<<OPCODE_MSG, 0, 0>>, <<OPCODE_MSG, 0, 0, 0>>}
(* MESSAGE frames whose declared length is, is below and is above the bytes present *)
MsgFrames == {<<OPCODE_MSG>> \o h \o p :
                h \in {intToBytes(n) : n \in 0..(MaxEntityLen + 1)} \cup {<<0, 0, 1, 0>>},
                p \in Entities}
(* RECEIPT frames, well formed and with the last byte missing *)
ReceiptFrames == {ReceiptFrame(id, ts) : id \in Ids, ts \in TsSeqs}
                 \cup {DropLast(ReceiptFrame(id, ts)) : id \in Ids, ts \in TsSeqs}
BinaryFrames == ShortFrames \cup MsgFrames \cup ReceiptFrames
(* text frames: flags.binary is false and data is a string *)
TextFrames == {<<>>, <<OPCODE_CONTROL_SIGNAL>>, <<OPCODE_MSG, 0, 0, 0, 0>>, <<OPCODE_RECEIPT, 0, 0>>}
PingPayloads == BSeq({OPCODE_PING, OPCODE_PONG}, 2)
(* the errors the transport reports: refused or failed connect, reset *)
TransportErrors == {"ECONNREFUSED", "ECONNRESET"}

(* ---- initialisation, ioFabricClient.js:38-58 and 338-349 ---- *)

(* the value of a variable, argument or property that is not there *)
NoValue == "<undefined>"
(* a string in a condition: undefined and the empty string are falsy *)
Truthy(v) == v \notin {NoValue, ""}
(* String.prototype.trim on the strings the model draws *)
Trim(v) == IF v = " " THEN "" ELSE v
(* !(!v || !v.trim()), lines 47 and 49 *)
NonBlank(v) == Truthy(v) /\ Truthy(Trim(v))

(* processArgs: an argument is the sequence of the pieces of
   arg.split('='); indexOf('=') > 0 holds when there are two pieces or more
   and the first one is not empty; a later argument overwrites the option of
   an earlier one.  OptionOf is options[key] of the object returned. *)
ArgSetsOption(arg, key) == Len(arg) >= 2 /\ arg[1] # "" /\ arg[1] = key
RECURSIVE OptionOf(_, _)
OptionOf(argv, key) ==
    IF argv = <<>> THEN NoValue
    ELSE LET n == Len(argv)
         IN IF ArgSetsOption(argv[n], key) THEN argv[n][2]
            ELSE OptionOf(SubSeq(argv, 1, n - 1), key)
processArgs(argv) == [id |-> OptionOf(argv, "--id")]

(* the identity as the environment's SELFNAME would set it last *)
initElementId_envLast(current, options, SELFNAME, containerId) ==
    LET a == IF Truthy(options.id) THEN options.id ELSE current
        b == IF NonBlank(containerId) THEN containerId ELSE a
    IN IF Truthy(SELFNAME) THEN SELFNAME ELSE b

(* lines 41, 43 and 49, in the order of the code *)
initElementId(current, options, SELFNAME, containerId) ==
    LET a == IF Truthy(options.id) THEN options.id ELSE current
        b == IF Truthy(SELFNAME) THEN SELFNAME ELSE a
    IN IF NonBlank(containerId) THEN containerId ELSE b

(* line 45 *)
initSSL(current, envSSL) == IF Truthy(envSSL) THEN TRUE ELSE current
(* line 47 *)
initHost(current, shost) == IF NonBlank(shost) THEN shost ELSE current
(* line 48: 0 stands for every falsy sport (undefined, null, 0) *)
initPort(current, sport) == IF ~(sport = 0 \/ sport <= 0) THEN sport ELSE current

(* the outcome of exec's child process: error is null or an Error *)
NoError == "null"
ProbeFailed(error, stderr) == stderr # "" \/ error # NoError

(* checkHost with the two tests joined by && *)
checkHost_bothTests(current, error, stderr) ==
    LET h == IF stderr # "" /\ error # NoError THEN "127.0.0.1" ELSE current
    IN [host |-> h, effects |-> <<CbEff(0, "mainCb", <<h>>)>>]

(* checkHost, lines 51-57: the new host and the call of mainCb, which
   carries the host that mainCb finds when it runs *)
checkHost(current, error, stderr) ==
    LET h == IF ProbeFailed(error, stderr) THEN "127.0.0.1" ELSE current
    IN [host |-> h, effects |-> <<CbEff(0, "mainCb", <<h>>)>>]

(* the inputs of init *)
Argvs ==
    { <<>>,
      << <<"--id", "opt">> >>,
      << <<"--id">> >>,
      << <<"--id", "">> >>,
      << <<"", "opt">> >>,
      << <<"--id", "opt">>, <<"--id", "opt2">> >>,
      << <<"--id", "opt">>, <<"--verbose", "1">> >> }
EnvValues == {NoValue, "", "env"}
HostArgs == {NoValue, "", " ", "fog"}
PortArgs == {0, -1, 8080}
ContainerIds == {NoValue, "", " ", "arg"}
ExecErrors == {NoError, "Error"}
Stderrs == {"", "ping: unknown host"}

(* exports.init up to the call of exec, lines 38-51 *)
CallInit(argv, SELFNAME, envSSL, shost, sport, containerId) ==
    /\ boot.pc = "loaded"
    /\ ELEMENT_ID' = initElementId(ELEMENT_ID, processArgs(argv), SELFNAME, containerId)
    /\ SSL' = initSSL(SSL, envSSL)
    /\ host' = initHost(host, shost)
    /\ port' = initPort(port, sport)
    /\ boot' = [pc |-> "probing", argv |-> argv, SELFNAME |-> SELFNAME,
                envSSL |-> envSSL, shost |-> shost, sport |-> sport,
                containerId |-> containerId, probed |-> host',
                error |-> NoError, stderr |-> "", effects |-> <<>>]
    /\ UNCHANGED <<runtime, wsControl, wsMessage, sockets, last, http>>

(* exec's callback, lines 51-57 *)
CheckHost(error, stderr) ==
    /\ boot.pc = "probing"
    /\ host' = checkHost(host, error, stderr).host
    /\ boot' = [boot EXCEPT !.pc = "done", !.error = error, !.stderr = stderr,
                            !.effects = checkHost(host, error, stderr).effects]
    /\ UNCHANGED <<ELEMENT_ID, SSL, port, runtime, wsControl, wsMessage,
                   sockets, last, http>>

(* ---- the HTTP calls, ioFabricClient.js:94-154 and 285-302 ---- *)

(* the response body handed to processCb *)
ProcessEff(name, body) ==
    [eff |-> "process", sock |-> 0, name |-> name, args |-> <<body>>, data |-> <<>>]

(* ioMessageUtil.decodeMessages, in lib/: the collection of the decoded
   entities of a collection of encoded ones *)
decodeMessages(messages) == [decoded |-> messages]

(* JSON.parse on the strings the model draws: "{}" parses, others throw *)
JSONparse(str) == IF str = "{}" THEN [ok |-> TRUE, value |-> "{}"]
                  ELSE [ok |-> FALSE, value |-> NoValue]

(* reading a property of an undefined body is a TypeError *)
postNewMsg(body) ==
    IF ~body.defined THEN <<ThrowEff("TypeError")>>
    ELSE IF Truthy(body.id) /\ body.timestamp # 0
         THEN <<CbEff(0, "onMessageReceipt", <<body.id, body.timestamp>>)>>
         ELSE <<>>

getNextMsgs(body) ==
    IF ~body.defined THEN <<ThrowEff("TypeError")>>
    ELSE IF Truthy(body.messages)
         THEN <<CbEff(0, "onMessages", <<decodeMessages(body.messages)>>)>>
         ELSE <<>>

getQueryMsgs(body) ==
    IF ~body.defined THEN <<ThrowEff("TypeError")>>
    ELSE IF Truthy(body.messages)
         THEN <<CbEff(0, "onMessagesQuery",
                      <<body.timeframestart, body.timeframeend, decodeMessages(body.messages)>>)>>
         ELSE <<>>

getNewConfig(body) ==
    IF ~body.defined THEN <<ThrowEff("TypeError")>>
    ELSE IF Truthy(body.config)
         THEN IF JSONparse(body.config).ok
              THEN <<CbEff(0, "onNewConfig", <<JSONparse(body.config).value>>)>>
              ELSE <<ThrowEff("SyntaxError")>>
         ELSE <<>>

(* the processCb each operation passes to makeHttpRequest *)
ProcessCbName(op) ==
    CASE op = "sendNewMessage" -> "postNewMsg"
      [] op = "getNextMessages" -> "getNextMsgs"
      [] op = "getMessagesByQuery" -> "getQueryMsgs"
      [] op = "getConfig" -> "getNewConfig"

processCb(op, body) ==
    Then(<<ProcessEff(ProcessCbName(op), body)>>,
         CASE op = "sendNewMessage" -> postNewMsg(body)
           [] op = "getNextMessages" -> getNextMsgs(body)
           [] op = "getMessagesByQuery" -> getQueryMsgs(body)
           [] op = "getConfig" -> getNewConfig(body))

(* handleHttpResponse without the two return statements *)
handleHttpResponse_noReturn(op, err, resp, body) ==
    (IF err # NoError THEN <<CbEff(0, "onError", <<err>>)>> ELSE <<>>)
    \o (IF resp.defined /\ resp.statusCode = 400
        THEN <<CbEff(0, "onBadRequest", <<body>>)>> ELSE <<>>)
    \o processCb(op, body)

(* handleHttpResponse, lines 293-301 *)
handleHttpResponse(op, err, resp, body) ==
    IF err # NoError THEN <<CbEff(0, "onError", <<err>>)>>
    ELSE IF resp.defined /\ resp.statusCode = 400
         THEN <<CbEff(0, "onBadRequest", <<body>>)>>
         ELSE processCb(op, body)

(* the inputs of the HTTP calls *)
HttpOps == {"sendNewMessage", "getNextMessages", "getMessagesByQuery", "getConfig"}
HttpErrors == {"ETIMEDOUT", "ECONNREFUSED"}
Statuses == {200, 400, 500}
NoResponse == [defined |-> FALSE, statusCode |-> 0]
NoBody == [defined |-> FALSE, id |-> NoValue, timestamp |-> 0, messages |-> NoValue,
           config |-> NoValue, timeframestart |-> 0, timeframeend |-> 0]
Bodies == {NoBody} \cup
          [defined : {TRUE}, id : {NoValue, "m1"}, timestamp : {0, 1500},
           messages : {NoValue, "msgs"}, config : {NoValue, "{}", "{bad"},
           timeframestart : {10}, timeframeend : {20}]
(* what the request library hands to its callback: an error alone, or a
   response and the body parsed from it *)
Responses ==
    {[err |-> e, resp |-> NoResponse, body |-> NoBody] : e \in HttpErrors}
    \cup {[err |-> NoError, resp |-> [defined |-> TRUE, statusCode |-> st], body |-> b] :
            st \in Statuses, b \in Bodies}

(* the application calls one of the four operations; getMessagesByQuery
   throws without a request when publishers is not an array, lines 126-140 *)
HttpCall(op, publishersIsArray) ==
    /\ http.pc = "idle"
    /\ http' = IF op = "getMessagesByQuery" /\ ~publishersIsArray
               THEN [pc |-> "threw", op |-> op, err |-> NoError, resp |-> NoResponse,
                     body |-> NoBody, effects |-> <<ThrowEff("Error")>>]
               ELSE [pc |-> "pending", op |-> op, err |-> NoError, resp |-> NoResponse,
                     body |-> NoBody, effects |-> <<>>]
    /\ UNCHANGED <<settings, boot, runtime, wsControl, wsMessage, sockets, last>>

(* the request completes: request.post calls handleHttpResponse *)
HandleHttpResponse(r) ==
    /\ http.pc = "pending"
    /\ http' = [http EXCEPT !.pc = "done", !.err = r.err, !.resp = r.resp, !.body = r.body,
                            !.effects = handleHttpResponse(http.op, r.err, r.resp, r.body)]
    /\ UNCHANGED <<settings, boot, runtime, wsControl, wsMessage, sockets, last>>

(* ---- state ---- *)
Idle == [kind |-> "none", sock |-> 0, data |-> <<>>, binary |-> FALSE, effects |-> <<>>]
Ran(kind, s, data, binary, effects) ==
    [kind |-> kind, sock |-> s, data |-> data, binary |-> binary, effects |-> effects]

SockIds == 1..Len(sockets)
NewSocket(role) == [role |-> role, readyState |-> "CONNECTING", pingListeners |-> 0]

(* the module variables as the module is loaded, lines 22-25 *)
DefaultPort == 54321
Loaded ==
    /\ ELEMENT_ID = "NOT_DEFINED"
    /\ SSL = FALSE
    /\ host = "iofabric"
    /\ port = DefaultPort

(* init has not been called *)
NotBooted == [pc |-> "loaded"]
(* no HTTP request has been made *)
NoRequest == [pc |-> "idle"]

Init ==
    /\ runtime \in Runtimes
    /\ wsControl = Undefined
    /\ wsMessage = Undefined
    /\ sockets = <<>>
    /\ last = Idle
    /\ Loaded
    /\ boot = NotBooted
    /\ http = NoRequest

(* exports.wsControlConnection(cb), lines 161-173, with makeWSRequest 312-320 *)
WsControlConnection ==
    /\ last = Idle
    /\ Len(sockets) < MaxSockets
    /\ sockets' = Append(sockets, NewSocket("control"))
    /\ wsControl' = CallerVarAfter(wsControl, Len(sockets) + 1)
    /\ last' = Ran("connect", Len(sockets) + 1, <<>>, FALSE, <<>>)
    /\ UNCHANGED <<settings, boot, http, runtime, wsMessage>>

(* exports.wsMessageConnection(sendMsgCb, cb), lines 182-216, with makeWSRequest *)
WsMessageConnection ==
    /\ last = Idle
    /\ Len(sockets) < MaxSockets
    /\ sockets' = Append(sockets, NewSocket("message"))
    /\ wsMessage' = CallerVarAfter(wsMessage, Len(sockets) + 1)
    /\ last' = Ran("connect", Len(sockets) + 1, <<>>, FALSE, <<>>)
    /\ UNCHANGED <<settings, boot, http, runtime, wsControl>>

(* wsOnOpen, lines 321-330: the socket is open; sendMsgCb is called when   *)
(* one was given (the message role), then the ping listener is registered  *)
WsOnOpen(s) ==
    /\ last = Idle
    /\ sockets[s].readyState = "CONNECTING"
    /\ sockets' = [sockets EXCEPT ![s].readyState = "OPEN",
                                  ![s].pingListeners = sockets[s].pingListeners + 1]
    /\ last' = Ran("open", s, <<>>, FALSE, wsOnOpen(s, sockets[s].role))
    /\ UNCHANGED <<settings, boot, http, runtime, wsControl, wsMessage>>

(* handleWsData, lines 315-317: a frame arrives on the open socket s *)
HandleWsData(s, data, binary) ==
    /\ last = Idle
    /\ sockets[s].readyState = "OPEN"
    /\ last' = Ran("message", s, data, binary,
                   IF sockets[s].role = "control"
                   THEN wsHandleControlData(sockets, wsControl, s, data, binary)
                   ELSE wsHandleMessageData(sockets, wsMessage, s, data, binary, runtime))
    /\ UNCHANGED <<settings, boot, http, runtime, wsControl, wsMessage, sockets>>

(* a transport-level ping arrives on the open socket s: every registered   *)
(* ping listener runs (wsOnOpen registers one)                             *)
WsPingEvent(s, data, binary) ==
    /\ last = Idle
    /\ sockets[s].readyState = "OPEN"
    /\ last' = Ran("ping", s, data, binary,
                   IF sockets[s].pingListeners > 0 THEN wsPing(s, data, binary) ELSE <<>>)
    /\ UNCHANGED <<settings, boot, http, runtime, wsControl, wsMessage, sockets>>

(* handleWsError, lines 318-320: the transport reports an error on s,      *)
(* which is closed by it                                                   *)
HandleWsError(s, error) ==
    /\ last = Idle
    /\ sockets[s].readyState # "CLOSED"
    /\ sockets' = [sockets EXCEPT ![s].readyState = "CLOSED"]
    /\ last' = Ran("error", s, <<error>>, FALSE, handleWsError(s, error))
    /\ UNCHANGED <<settings, boot, http, runtime, wsControl, wsMessage>>

(* the peer closes the socket; the SDK registers no close listener *)
SocketClosed(s) ==
    /\ last = Idle
    /\ sockets[s].readyState # "CLOSED"
    /\ sockets' = [sockets EXCEPT ![s].readyState = "CLOSED"]
    /\ UNCHANGED <<settings, boot, http, runtime, wsControl, wsMessage, last>>

(* the application calls exports.wsSendMessage(ioMsg), lines 223-230 *)
WsSendMessage(ioMsg) ==
    /\ last = Idle
    /\ last' = Ran("send", 0, ioMsgBuffer(ioMsg), TRUE, wsSendMessage(sockets, wsMessage, ioMsg))
    /\ UNCHANGED <<settings, boot, http, runtime, wsControl, wsMessage, sockets>>

(* the handler has returned: control is back in the event loop *)
EventLoopTurn ==
    /\ last # Idle
    /\ last' = Idle
    /\ UNCHANGED <<settings, boot, http, runtime, wsControl, wsMessage, sockets>>

(* the sockets an event can be delivered to: events are delivered from    *)
(* the event loop, never while a handler runs                              *)
Deliverable == IF last = Idle THEN SockIds ELSE {}

Next ==
    \/ WsControlConnection
    \/ WsMessageConnection
    \/ \E s \in Deliverable : WsOnOpen(s)
    \/ \E s \in Deliverable, data \in BinaryFrames : HandleWsData(s, data, TRUE)
    \/ \E s \in Deliverable, data \in TextFrames : HandleWsData(s, data, FALSE)
    \/ \E s \in Deliverable, data \in PingPayloads, binary \in BOOLEAN : WsPingEvent(s, data, binary)
    \/ \E s \in Deliverable, error \in TransportErrors : HandleWsError(s, error)
    \/ \E s \in Deliverable : SocketClosed(s)
    \/ \E e \in Entities : WsSendMessage(ioMessageFromBuffer(e))
    \/ EventLoopTurn

Spec == Init /\ [][Next]_vars

(* the initialisation on its own: one call of init and its probe *)
NextInit ==
    \/ \E argv \in Argvs, SELFNAME \in EnvValues, envSSL \in EnvValues,
          shost \in HostArgs, sport \in PortArgs, containerId \in ContainerIds :
            CallInit(argv, SELFNAME, envSSL, shost, sport, containerId)
    \/ \E error \in ExecErrors, stderr \in Stderrs : CheckHost(error, stderr)

SpecInit == Init /\ [][NextInit]_vars

(* the HTTP calls on their own: one request and its completion *)
NextHttp ==
    \/ \E op \in HttpOps, publishersIsArray \in BOOLEAN : HttpCall(op, publishersIsArray)
    \/ \E r \in Responses : HandleHttpResponse(r)

SpecHttp == Init /\ [][NextHttp]_vars

(* ======================================================================= *)
(* Properties                                                              *)
(* ======================================================================= *)

IsCb(x) == x.eff = "cb"
IsWrite(x) == x.eff \in {"send", "pong"}
IsThrow(x) == x.eff = "throw"
CbEffs(e) == SelectSeq(e, IsCb)
WriteEffs(e) == SelectSeq(e, IsWrite)
ThrowEffs(e) == SelectSeq(e, IsThrow)
Ack(s) == SendEff(s, <<OPCODE_ACK>>)

(* a frame has been handed to the frame handler of a socket of the role *)
Received(role) == last.kind = "message" /\ sockets[last.sock].role = role

(* the message connection: the socket of the latest wsMessageConnection call *)
MessageSockets == {s \in SockIds : sockets[s].role = "message"}
CurrentMessageSocket == CHOOSE s \in MessageSockets : \A t \in MessageSockets : t <= s
MessageConnectionOpen ==
    MessageSockets # {} /\ sockets[CurrentMessageSocket].readyState = "OPEN"

(* C1: a frame that reached an application callback is followed by exactly *)
(* one ACK, the single byte 0x0B, written to the socket the frame came in  *)
(* on, after the callback; a frame that reached no callback gets no ACK.   *)
C1_AckOncePerDispatchedFrame ==
    last.kind = "message" =>
        IF CbEffs(last.effects) # <<>>
        THEN /\ Len(last.effects) = 2
             /\ IsCb(last.effects[1])
             /\ last.effects[2] = Ack(last.sock)
        ELSE WriteEffs(last.effects) = <<>>

(* C2: with the message socket open (its open callback has run),           *)
(* wsSendMessage does not throw and writes exactly one frame               *)
(* [0x0D][4-byte big-endian length][entity bytes] to that socket.          *)
C2_SendWritesOneFrameWhenOpen ==
    (last.kind = "send" /\ MessageConnectionOpen) =>
        last.effects = <<SendEff(CurrentMessageSocket, MessageFrame(last.data))>>

(* C3: while the message connection is not open (never opened, connecting, *)
(* closed or errored) wsSendMessage throws the not-connected error and     *)
(* writes nothing; and nothing is queued: no handler that runs later       *)
(* writes a MESSAGE frame.                                                 *)
C3_SendFailsWhenNotOpen ==
    /\ (last.kind = "send" /\ ~MessageConnectionOpen) =>
           last.effects = <<ThrowEff("NotConnected")>>
    /\ last.kind # "send" =>
           \A i \in 1..Len(last.effects) :
               IsWrite(last.effects[i]) => last.effects[i].data[1] # OPCODE_MSG

(* C3 witness: wsSendMessage was called while the message socket was still *)
(* connecting, and threw.                                                  *)
C3_Witness ==
    /\ last.kind = "send"
    /\ MessageSockets # {}
    /\ sockets[CurrentMessageSocket].readyState = "CONNECTING"
    /\ last.effects = <<ThrowEff("NotConnected")>>

(* a frame with a known opcode that is shorter than its layout says *)
Malformed(data) ==
    \/ data[1] = OPCODE_MSG /\ Len(data) < 5
    \/ data[1] = OPCODE_RECEIPT /\ (Len(data) < 3 \/ 3 + data[2] + data[3] > Len(data))

(* C4: a malformed MESSAGE or RECEIPT frame on the message channel is      *)
(* dropped: no application callback, no ACK, no error thrown by the frame  *)
(* handler.                                                                *)
C4_MalformedFrameDropped ==
    (Received("message") /\ last.binary /\ Len(last.data) > 0 /\ Malformed(last.data)) =>
        last.effects = <<>>

(* the opcodes the frame handler of a role dispatches on *)
Handled(role) ==
    IF role = "control" THEN {OPCODE_CONTROL_SIGNAL} ELSE {OPCODE_MSG, OPCODE_RECEIPT}

(* C5: on both channels a frame of length zero, or whose first byte is not *)
(* an opcode the channel handles, causes no callback, no ACK and no error, *)
(* whatever bytes follow.                                                  *)
C5_UnhandledFrameIgnored ==
    (/\ last.kind = "message"
     /\ \/ Len(last.data) = 0
        \/ last.data[1] \notin Handled(sockets[last.sock].role)) =>
        last.effects = <<>>

(* C5 witness: the frame [0xFF, x] arrived on the message channel and      *)
(* nothing happened.                                                       *)
C5_Witness ==
    /\ Received("message") /\ last.binary
    /\ Len(last.data) = 2 /\ last.data[1] = 255
    /\ last.effects = <<>>

(* C6: on the control channel a binary frame with opcode CONTROL_SIGNAL    *)
(* invokes cb.onNewConfigSignal exactly once and no other callback; a      *)
(* frame with any other opcode invokes no callback.                        *)
C6_ControlSignalDispatch ==
    (Received("control") /\ last.binary /\ Len(last.data) > 0) =>
        CbEffs(last.effects) = IF last.data[1] = OPCODE_CONTROL_SIGNAL
                               THEN <<CbEff(last.sock, "onNewConfigSignal", <<>>)>>
                               ELSE <<>>

(* C6 witness: a CONTROL_SIGNAL frame arrived on a control socket and      *)
(* onNewConfigSignal ran once.                                             *)
C6_Witness ==
    /\ Received("control") /\ last.binary
    /\ Len(last.data) > 0 /\ last.data[1] = OPCODE_CONTROL_SIGNAL
    /\ CbEffs(last.effects) = <<CbEff(last.sock, "onNewConfigSignal", <<>>)>>

(* C7: the frame wsSendMessage builds from the entity bytes b, fed to the  *)
(* message channel's frame handler, hands exactly b to the entity decoder. *)
C7_MessageFrameRoundTrip ==
    \A b \in Entities :
        (Received("message") /\ last.binary /\ last.data = MessageFrame(b)) =>
            /\ last.effects # <<>>
            /\ last.effects[1] = CbEff(last.sock, "onMessages", << <<ioMessageFromBuffer(b)>> >>)

(* C7 witness: the frame built from an entity of the longest length        *)
(* arrived and onMessages ran.                                             *)
C7_Witness ==
    /\ Received("message") /\ last.binary
    /\ \E b \in Entities : Len(b) = MaxEntityLen /\ last.data = MessageFrame(b)
    /\ last.effects # <<>> /\ last.effects[1].name = "onMessages"

(* a RECEIPT frame whose length is exactly 3 + idLength + timestampLength *)
WellFormedReceipt(data) ==
    /\ Len(data) >= 3
    /\ data[1] = OPCODE_RECEIPT
    /\ Len(data) = 3 + data[2] + data[3]

(* what a well-formed RECEIPT frame is to deliver: the id as a string and  *)
(* the big-endian value of the timestamp bytes                             *)
ExpectedReceipt(s, data) ==
    CbEff(s, "onMessageReceipt",
          <<Utf8ToString(SubSeq(data, 4, 3 + data[2])),
            [exact |-> TRUE, be |-> UInt(SubSeq(data, 4 + data[2], Len(data)))]>>)

(* C8: every well-formed RECEIPT frame invokes cb.onMessageReceipt exactly *)
(* once, with the UTF-8 string of the id bytes and the big-endian unsigned *)
(* value of the timestamp bytes.                                           *)
C8_ReceiptDecoded ==
    (Received("message") /\ last.binary /\ WellFormedReceipt(last.data)) =>
        CbEffs(last.effects) = <<ExpectedReceipt(last.sock, last.data)>>

(* the same for timestamps of at most six bytes, the widest readUIntBE     *)
(* reads on every build                                                    *)
ReceiptDecodedUpToSixBytes ==
    (Received("message") /\ last.binary /\ WellFormedReceipt(last.data) /\ last.data[3] <= 6) =>
        CbEffs(last.effects) = <<ExpectedReceipt(last.sock, last.data)>>

(* C9, as stated: every transport-level ping on an open connection,         *)
(* whatever its payload length, is answered with exactly one pong on the   *)
(* same socket and reaches no application callback.                        *)
C9_EveryPingAnswered ==
    last.kind = "ping" =>
        /\ Len(last.effects) = 1
        /\ last.effects[1].eff = "pong"
        /\ last.effects[1].sock = last.sock

(* C9, amended: a ping whose payload is binary and exactly one byte long   *)
(* is answered by the ping handler with exactly one pong on the same       *)
(* socket; a ping of any other payload length gets no pong from it; no     *)
(* application callback runs in either case.                               *)
C9_OneBytePingAnswered ==
    last.kind = "ping" =>
        IF last.binary /\ Len(last.data) = 1
        THEN /\ Len(last.effects) = 1
             /\ last.effects[1].eff = "pong"
             /\ last.effects[1].sock = last.sock
        ELSE last.effects = <<>>

(* C9 witness: a one-byte ping was answered with one pong on its socket *)
C9_Witness ==
    /\ last.kind = "ping" /\ last.binary /\ Len(last.data) = 1
    /\ Len(last.effects) = 1
    /\ last.effects[1].eff = "pong" /\ last.effects[1].sock = last.sock

C11_ErrorReportedOnceNoReconnect ==
    [][/\ last'.kind = "error" =>
             /\ last'.effects = <<CbEff(last'.sock, "onError", last'.data)>>
             /\ Len(sockets') = Len(sockets)
       /\ Len(sockets') # Len(sockets) =>
             /\ last'.kind = "connect"
             /\ Len(sockets') = Len(sockets) + 1]_vars

(* C11 witness: an error was reported once on a socket, which is closed *)
C11_Witness ==
    /\ last.kind = "error"
    /\ last.effects = <<CbEff(last.sock, "onError", last.data)>>
    /\ sockets[last.sock].readyState = "CLOSED"

(* the number of calls of sendMsgCb of socket s among the effects e *)
SendMsgCbCalls(e, s) ==
    Cardinality({i \in 1..Len(e) : IsCb(e[i]) /\ e[i].name = "sendMsgCb" /\ e[i].sock = s})

(* C12: sendMsgCb of a message socket is invoked once in the step in which *)
(* the socket goes from connecting to open and in no other step; a socket  *)
(* becomes open only from connecting and never connects again, so the      *)
(* callback runs once for a socket that opens and never for one that does  *)
(* not.                                                                    *)
C12_SendMsgCbOncePerOpen ==
    [][\A s \in 1..Len(sockets') :
         LET existed == s <= Len(sockets)
             opens == /\ existed
                      /\ sockets[s].readyState = "CONNECTING"
                      /\ sockets'[s].readyState = "OPEN"
         IN  /\ SendMsgCbCalls(last'.effects, s) =
                    IF opens /\ sockets[s].role = "message" THEN 1 ELSE 0
             /\ sockets'[s].readyState = "OPEN" =>
                    existed /\ sockets[s].readyState \in {"CONNECTING", "OPEN"}
             /\ (existed /\ sockets[s].readyState # "CONNECTING") =>
                    sockets'[s].readyState # "CONNECTING"]_vars

(* C12 witness: a message socket has opened and its sendMsgCb has run *)
C12_Witness ==
    /\ last.kind = "open"
    /\ sockets[last.sock].role = "message"
    /\ sockets[last.sock].readyState = "OPEN"
    /\ last.effects = <<CbEff(last.sock, "sendMsgCb", <<>>)>>

(* ---- C13 ---- *)

InitCalled == boot.pc \in {"probing", "done"}
OptionId == OptionOf(boot.argv, "--id")

(* C13, as stated: after init, ELEMENT_ID is SELFNAME when the environment
   sets it, whatever --id option or containerId argument is supplied;
   otherwise an explicit identifier that is given; otherwise "NOT_DEFINED". *)
C13_EnvironmentFirst ==
    InitCalled =>
        IF Truthy(boot.SELFNAME) THEN ELEMENT_ID = boot.SELFNAME
        ELSE IF Truthy(OptionId) \/ NonBlank(boot.containerId)
             THEN \/ Truthy(OptionId) /\ ELEMENT_ID = OptionId
                  \/ NonBlank(boot.containerId) /\ ELEMENT_ID = boot.containerId
             ELSE ELEMENT_ID = "NOT_DEFINED"

(* C13, amended: after init, ELEMENT_ID is the containerId argument when it
   is not blank; otherwise SELFNAME when the environment sets it; otherwise
   the --id start option when it is given and not empty; otherwise
   "NOT_DEFINED". *)
C13_ContainerIdFirst ==
    InitCalled =>
        ELEMENT_ID = IF NonBlank(boot.containerId) THEN boot.containerId
                     ELSE IF Truthy(boot.SELFNAME) THEN boot.SELFNAME
                     ELSE IF Truthy(OptionId) THEN OptionId
                     ELSE "NOT_DEFINED"

(* init has run with SELFNAME, an --id option and a containerId all given,
   and the containerId is the identity *)
C13_Witness ==
    /\ boot.pc = "done"
    /\ Truthy(boot.SELFNAME)
    /\ Truthy(OptionId)
    /\ NonBlank(boot.containerId)
    /\ ELEMENT_ID = boot.containerId
    /\ ELEMENT_ID # boot.SELFNAME

(* ---- C19 ---- *)

(* the host that mainCb must find: '127.0.0.1' after a failed probe, the
   host that init probed otherwise *)
HostAfterProbe ==
    IF boot.error # NoError \/ boot.stderr # "" THEN "127.0.0.1" ELSE boot.probed

(* C19: init does not call mainCb before the probe has completed; when the
   probe has completed, with either outcome, mainCb has been called exactly
   once, and at that call host is '127.0.0.1' if the probe failed (error or
   non-empty stderr) and the host that was probed if it succeeded. *)
C19_MainCbOnceAfterProbe ==
    /\ boot.pc = "probing" => boot.effects = <<>>
    /\ boot.pc = "done" =>
          /\ boot.effects = <<CbEff(0, "mainCb", <<HostAfterProbe>>)>>
          /\ host = HostAfterProbe

(* the probe has written to stderr without an error, mainCb has run and has
   found the host replaced *)
C19_Witness ==
    /\ boot.pc = "done"
    /\ boot.error = NoError
    /\ boot.stderr # ""
    /\ boot.probed = "fog"
    /\ host = "127.0.0.1"
    /\ Len(boot.effects) = 1

(* the probe has succeeded and mainCb has found the host that init set *)
ProbeSucceededHostKept ==
    /\ boot.pc = "done"
    /\ boot.error = NoError
    /\ boot.stderr = ""
    /\ host = "fog"
    /\ boot.effects = <<CbEff(0, "mainCb", <<"fog">>)>>

(* ---- C14 ---- *)

(* the length a MESSAGE frame declares in its bytes 1..4, big-endian *)
DeclaredLength(data) ==
    ((data[2] * 256 + data[3]) * 256 + data[4]) * 256 + data[5]

(* a MESSAGE frame that holds at least the bytes it declares *)
CompleteMsgFrame(data) ==
    /\ Len(data) >= 5
    /\ data[1] = OPCODE_MSG
    /\ Len(data) >= 5 + DeclaredLength(data)

(* C14: for a MESSAGE frame with declared length L and at least 5+L bytes,
   the message channel hands exactly the L bytes at offsets 5..5+L-1 to the
   entity decoder and calls onMessages exactly once, with a collection of
   exactly that one entity; bytes beyond offset 5+L produce no second entity
   and no second callback. *)
C14_OneEntityFromDeclaredBytes ==
    (Received("message") /\ last.binary /\ CompleteMsgFrame(last.data)) =>
        LET L == DeclaredLength(last.data)
            entity == ioMessageFromBuffer(SubSeq(last.data, 6, 5 + L))
        IN /\ CbEffs(last.effects) = <<CbEff(last.sock, "onMessages", << <<entity>> >>)>>
           /\ Len(CbEffs(last.effects)[1].args[1]) = 1

(* a MESSAGE frame with a declared entity and a byte behind it arrived and
   onMessages ran once *)
C14_Witness ==
    /\ Received("message") /\ last.binary
    /\ CompleteMsgFrame(last.data)
    /\ DeclaredLength(last.data) >= 1
    /\ Len(last.data) > 5 + DeclaredLength(last.data)
    /\ Len(CbEffs(last.effects)) = 1
    /\ CbEffs(last.effects)[1].name = "onMessages"

(* ---- C15 ---- *)

(* a RECEIPT frame that carries the timestamp bytes it declares, one or more *)
ReceiptWithTimestamp(data) ==
    /\ WellFormedReceipt(data)
    /\ data[3] >= 1

(* the timestamp bytes of a RECEIPT frame *)
TimestampBytes(data) == SubSeq(data, 4 + data[2], 3 + data[2] + data[3])

(* C15: whatever its timestampLength (1 and more, widths above 4 and above
   6 bytes included), a RECEIPT frame carrying that many timestamp bytes is
   decoded without an error, and onMessageReceipt receives the big-endian
   unsigned value of the timestamp bytes. *)
C15_TimestampOfAnyWidth ==
    (Received("message") /\ last.binary /\ ReceiptWithTimestamp(last.data)) =>
        /\ ThrowEffs(last.effects) = <<>>
        /\ \E i \in 1..Len(last.effects) :
              /\ last.effects[i].eff = "cb"
              /\ last.effects[i].name = "onMessageReceipt"
              /\ last.effects[i].args[2] = [exact |-> TRUE, be |-> UInt(TimestampBytes(last.data))]

(* the same for the widths readUIntBE reads on every build: 1 to 6 bytes,
   widths above 4 included *)
TimestampUpToSixBytes ==
    (Received("message") /\ last.binary /\ ReceiptWithTimestamp(last.data)
        /\ last.data[3] <= 6) =>
        /\ ThrowEffs(last.effects) = <<>>
        /\ \E i \in 1..Len(last.effects) :
              /\ last.effects[i].eff = "cb"
              /\ last.effects[i].name = "onMessageReceipt"
              /\ last.effects[i].args[2] = [exact |-> TRUE, be |-> UInt(TimestampBytes(last.data))]

(* ---- C16 ---- *)

(* the callbacks of a channel: those of its cb object and, for the message
   channel, sendMsgCb *)
CallbacksOf(role) ==
    IF role = "control" THEN {"onNewConfigSignal", "onError"}
    ELSE {"onMessages", "onMessageReceipt", "onError", "sendMsgCb"}

OtherRole(role) == IF role = "control" THEN "message" ELSE "control"
ReadyStates == {"CONNECTING", "OPEN", "CLOSED"}

(* the sockets with those of the other channel in every state they can be in *)
OtherChannelVariants(socks, role) ==
    LET others == {t \in 1..Len(socks) : socks[t].role # role}
    IN {[t \in 1..Len(socks) |->
            IF t \in others
            THEN [role |-> socks[t].role, readyState |-> f[t][1], pingListeners |-> f[t][2]]
            ELSE socks[t]] :
        f \in [others -> ReadyStates \X {0, 1}]}

(* the values the other channel's module variable can have *)
OtherVarValues(socks, role) ==
    {Undefined} \cup {t \in 1..Len(socks) : socks[t].role # role}

(* what the event kind on socket s does, given the sockets and the two
   module variables *)
EventEffects(kind, socks, wsC, wsM, s, data, binary, rt) ==
    CASE kind = "message" ->
            IF socks[s].role = "control"
            THEN wsHandleControlData(socks, wsC, s, data, binary)
            ELSE wsHandleMessageData(socks, wsM, s, data, binary, rt)
      [] kind = "ping" ->
            IF socks[s].pingListeners > 0 THEN wsPing(s, data, binary) ELSE <<>>
      [] kind = "error" -> handleWsError(s, data[1])
      [] kind = "open" -> wsOnOpen(s, socks[s].role)

(* C16: an open, a frame, a ping or an error on a socket of one channel
   invokes only callbacks of that channel's connection, writes only to
   sockets of that channel, leaves the sockets and the module variable of
   the other channel as they were, and produces the callbacks and writes it
   would produce in every other state of the other channel. *)
C16_ChannelsIndependent ==
    [][\A s \in 1..Len(sockets) :
          (last'.sock = s /\ last'.kind \in {"message", "ping", "error", "open"}) =>
             LET role == sockets[s].role
                 e == last'.effects
             IN /\ \A i \in 1..Len(e) :
                      /\ e[i].eff = "cb" => e[i].sock = s /\ e[i].name \in CallbacksOf(role)
                      /\ e[i].eff \in {"send", "pong"} =>
                            e[i].sock \in 1..Len(sockets) /\ sockets[e[i].sock].role = role
                /\ \A t \in 1..Len(sockets) : sockets[t].role # role => sockets'[t] = sockets[t]
                /\ role = "control" => wsMessage' = wsMessage
                /\ role = "message" => wsControl' = wsControl
                /\ \A alt \in OtherChannelVariants(sockets, role),
                      v \in OtherVarValues(sockets, role) :
                      e = EventEffects(last'.kind, alt,
                                       IF role = "control" THEN wsControl ELSE v,
                                       IF role = "message" THEN wsMessage ELSE v,
                                       s, last'.data, last'.binary, runtime)]_vars

(* both channels are open, and a frame on the control channel has invoked
   the control callback only *)
C16_Witness ==
    /\ Len(sockets) = 2
    /\ sockets[1].role = "message" /\ sockets[1].readyState = "OPEN"
    /\ sockets[2].role = "control" /\ sockets[2].readyState = "OPEN"
    /\ last.kind = "message" /\ last.sock = 2
    /\ CbEffs(last.effects) = <<CbEff(2, "onNewConfigSignal", <<>>)>>

(* ---- C17 ---- *)

(* the module variable that holds the current connection of a role *)
CurrentConnection(role, wsC, wsM) == IF role = "control" THEN wsC ELSE wsM

(* the socket created by the most recent open call for a role, or Undefined *)
MostRecentSocket(socks, role) ==
    LET ofRole == {t \in 1..Len(socks) : socks[t].role = role}
    IN IF ofRole = {} THEN Undefined
       ELSE CHOOSE t \in ofRole : \A u \in ofRole : u <= t

(* C17: every call of wsControlConnection or wsMessageConnection constructs
   exactly one new socket and leaves the sockets created before as they are;
   after any sequence of open calls, the current connection of each role
   (the one ACKs and wsSendMessage use) is the socket created by the most
   recent open call for that role. *)
C17_CurrentIsMostRecent ==
    [][last'.kind = "connect" =>
          /\ Len(sockets') = Len(sockets) + 1
          /\ SubSeq(sockets', 1, Len(sockets)) = sockets
          /\ sockets'[Len(sockets')].readyState = "CONNECTING"
          /\ \A role \in {"control", "message"} :
                CurrentConnection(role, wsControl', wsMessage')
                    = MostRecentSocket(sockets', role)]_vars

(* the part of C17 about construction: an open call appends one new socket,
   being connected, and touches no earlier one *)
ConnectConstructsOneNewSocket ==
    [][last'.kind = "connect" =>
          /\ Len(sockets') = Len(sockets) + 1
          /\ SubSeq(sockets', 1, Len(sockets)) = sockets
          /\ sockets'[Len(sockets')].readyState = "CONNECTING"]_vars

(* in the code as it is, no open call ever sets a current connection *)
CurrentConnectionNeverSet == wsControl = Undefined /\ wsMessage = Undefined

(* ---- C18 ---- *)

HttpCount(e, kind, names) ==
    Cardinality({i \in 1..Len(e) : e[i].eff = kind /\ e[i].name \in names})
SuccessCallbacks == {"onMessageReceipt", "onMessages", "onMessagesQuery", "onNewConfig"}

(* C18: for every completed HTTP request exactly one of three outcomes has
   happened: onError was called (transport error), onBadRequest was called
   (status 400), or the body went to the operation's process callback; and
   after a transport error or a 400 response no success callback was
   called. *)
C18_OneOutcomePerResponse ==
    http.pc = "done" =>
        LET e == http.effects
            nError == HttpCount(e, "cb", {"onError"})
            nBad == HttpCount(e, "cb", {"onBadRequest"})
            nProcessed == HttpCount(e, "process", {ProcessCbName(http.op)})
            failed == http.err # NoError
            bad == ~failed /\ http.resp.statusCode = 400
        IN /\ nError + nBad + nProcessed = 1
           /\ nError = (IF failed THEN 1 ELSE 0)
           /\ nBad = (IF bad THEN 1 ELSE 0)
           /\ (failed \/ bad) => HttpCount(e, "cb", SuccessCallbacks) = 0
           /\ HttpCount(e, "cb", SuccessCallbacks) <= 1

(* a 400 response whose body has an id and a timestamp has been answered
   with onBadRequest alone *)
C18_Witness ==
    /\ http.pc = "done"
    /\ http.op = "sendNewMessage"
    /\ http.err = NoError /\ http.resp.statusCode = 400
    /\ http.body.defined /\ http.body.id = "m1" /\ http.body.timestamp = 1500
    /\ http.effects = <<CbEff(0, "onBadRequest", <<http.body>>)>>

(* a 200 response has been processed and has reached the success callback *)
HttpSuccessDelivered ==
    /\ http.pc = "done"
    /\ http.op = "getConfig"
    /\ http.resp.statusCode = 200
    /\ http.effects = <<ProcessEff("getNewConfig", http.body),
                        CbEff(0, "onNewConfig", <<"{}">>)>>


====
